---- MODULE Spec2Model ----
(***************************************************************************)
(* Model of backend/meme_detector.py (class MemeStockDetector) and of the  *)
(* two endpoints of backend/main.py that drive it.                         *)
(*                                                                         *)
(* Numbers.  Scores are integers.  Ratios that the code computes as floats *)
(* from integer totals are compared in exact integer arithmetic            *)
(* (a / b > 3.0 is a > 3 * b) and reported in hundredths.  The composite   *)
(* score is a sum of products with the literals 0.40, 0.35 and 0.25: it is *)
(* modelled in IEEE-754 double arithmetic, each operation rounded to       *)
(* nearest-even (see Dbl below).  Time is in seconds.                      *)
(***************************************************************************)
EXTENDS Integers, Sequences, FiniteSets, TLC

VARIABLES
    now,               \* datetime.now(), seconds
    options_cache,     \* self._options_cache: upper-cased ticker -> <<>> or <<[data, ts]>>
    apewisdom_cache,   \* self._apewisdom_cache: <<>> (None) or <<list>>
    apewisdom_ts,      \* self._apewisdom_ts: <<>> (None) or <<time>>
    pc,                \* where each coroutine is: "scan" (scan_for_alerts -> scan_watchlist)
                       \* and "lookup" (get_alert_for_ticker -> get_early_warning_score)
    frame,             \* the locals of a coroutine suspended in `await self.client.get(url)`
    watchlist,         \* scan_watchlist: tickers
    idx,               \* scan_watchlist: how many tickers the for loop has taken
    results,           \* scan_watchlist: results
    returned,          \* scan_watchlist: <<>> or <<results_sorted>> once it has returned
    lookups,           \* how many get_alert_for_ticker requests have been made
    inp,               \* the input of the call under study (runs of a single function)
    out,               \* what the last call returned: <<>> or <<value>>
    meta,              \* history: for each element of results, what its call read
    last_call,         \* history: what the last get_early_warning_score step did
    last_cold,         \* history: <<>> or <<the `now` of the latest successful social fetch>>
    ape_version        \* history: how many times the shared social cache was written

detVars == <<now, options_cache, apewisdom_cache, apewisdom_ts>>
scanVars == <<watchlist, idx, results, returned, meta>>
histVars == <<last_call, last_cold, ape_version>>
vars == <<now, options_cache, apewisdom_cache, apewisdom_ts, pc, frame, watchlist, idx,
          results, returned, lookups, inp, out, meta, last_call, last_cold, ape_version>>

----------------------------------------------------------------------------
(* Small helpers *)

Min(a, b) == IF a < b THEN a ELSE b

BoolToInt(b) == IF b THEN 1 ELSE 0

RECURSIVE PowMod(_, _, _)
\* b^e mod m
PowMod(b, e, m) ==
    IF e = 0 THEN 1 % m
    ELSE IF e % 2 = 0 THEN LET half == PowMod(b, e \div 2, m) IN (half * half) % m
    ELSE (b * PowMod(b, e - 1, m)) % m

----------------------------------------------------------------------------
(* IEEE-754 doubles close to a multiple of 0.01.                           *)
(* [h, d] stands for the real number h/100 + d/(100 * 2^54).  Every double *)
(* in [0.25, 16) is a multiple of 2^-54, so it has this form with d an     *)
(* integer; for the doubles met here |d| stays below a few thousand.       *)

Dbl(h, d) == [h |-> h, d |-> d]

\* x >= t/100
DblGE(x, t) == x.h > t \/ (x.h = t /\ x.d >= 0)

\* the spacing of doubles around x is 2^(Binade(x) - 54)
Binade(x) ==
    IF DblGE(x, 800) THEN 5
    ELSE IF DblGE(x, 400) THEN 4
    ELSE IF DblGE(x, 200) THEN 3
    ELSE IF DblGE(x, 100) THEN 2
    ELSE IF DblGE(x, 50) THEN 1
    ELSE 0

\* Round the real number x to the nearest double, ties to the even mantissa.
\* [h, d'] is a double of binade k iff h * 2^54 + d' is a multiple of 100 * 2^k.
RoundDbl(x) ==
    IF x.h = 0 /\ x.d = 0 THEN x
    ELSE
      LET k == Binade(x)
          M == 100 * PowMod(2, k, 100000)
          r == (x.h * PowMod(2, 54, M) + x.d) % M
          lo == x.d - r
          hi == lo + M
          loEven == (x.h * PowMod(2, 54, 2 * M) + lo) % (2 * M) = 0
      IN  IF r = 0 THEN x
          ELSE IF 2 * r < M THEN Dbl(x.h, lo)
          ELSE IF 2 * r > M THEN Dbl(x.h, hi)
          ELSE IF loEven THEN Dbl(x.h, lo) ELSE Dbl(x.h, hi)

\* a float literal with two decimals, e.g. 0.40
DblLit(hundredths) == RoundDbl(Dbl(hundredths, 0))

\* literal * int (the int converts exactly)
DblMulInt(x, n) == RoundDbl(Dbl(x.h * n, x.d * n))

DblAdd(x, y) == RoundDbl(Dbl(x.h + y.h, x.d + y.d))

\* round(x, 2), in hundredths: the nearest multiple of 0.01.  |d| < 2^53
\* always holds here, so the nearest multiple is h/100.
Round2Dbl(x) == x.h

----------------------------------------------------------------------------
(* Shared pieces of the three signal fetchers *)

\* str.upper() on the tickers of the model
Upper(t) ==
    CASE t = "gme" -> "GME"
      [] t = "amc" -> "AMC"
      [] OTHER -> t

MaxScore == 10      \* score = min(score, 10)

\* STRONG only above 7
SignalLabelStrict(score) ==
    IF score > 7 THEN "STRONG" ELSE IF score >= 4 THEN "MODERATE" ELSE "WEAK"

\* "STRONG" if score >= 7 else "MODERATE" if score >= 4 else "WEAK"
SignalLabel(score) ==
    IF score >= 7 THEN "STRONG" ELSE IF score >= 4 THEN "MODERATE" ELSE "WEAK"

\* round(a / b, 2) in hundredths, for integers a >= 0, b > 0 (ties to even)
Round2(a, b) ==
    LET q == (100 * a) \div b
        r == (100 * a) % b
    IN  IF 2 * r < b THEN q
        ELSE IF 2 * r > b THEN q + 1
        ELSE IF q % 2 = 0 THEN q ELSE q + 1

RECURSIVE SumSeq(_)
SumSeq(s) == IF Len(s) = 0 THEN 0 ELSE Head(s) + SumSeq(Tail(s))

----------------------------------------------------------------------------
(* SIGNAL 1: options.  The provider's answer p is                          *)
(*   [listing |-> "raise"]                    stock.options raises         *)
(*   [listing |-> "ok", chains |-> <<c1, ..>>] one chain per expiration,   *)
(* nearest first; a chain is [ok |-> FALSE] when option_chain(exp) raises, *)
(* else [ok |-> TRUE, cv, pv, coi, poi]: its summed call volume, put       *)
(* volume, call open interest and put open interest (NaN counted as 0).    *)

\* every expiration is fetched
NearExpirationsAll(chains) == chains

\* expirations[:2] if len(expirations) >= 2 else expirations[:1]
NearExpirations(chains) ==
    IF Len(chains) >= 2 THEN SubSeq(chains, 1, 2) ELSE SubSeq(chains, 1, 1)

\* the totals after the loop over near_expirations: failed chains are skipped
ChainTotals(near) ==
    LET val(c, f) == IF c.ok THEN c[f] ELSE 0
    IN  [call_volume |-> SumSeq([i \in 1..Len(near) |-> val(near[i], "cv")]),
         put_volume  |-> SumSeq([i \in 1..Len(near) |-> val(near[i], "pv")]),
         call_oi     |-> SumSeq([i \in 1..Len(near) |-> val(near[i], "coi")]),
         put_oi      |-> SumSeq([i \in 1..Len(near) |-> val(near[i], "poi")])]

\* heavy call buying adds 7 instead of 5
CallPutPointsHeavy(t) ==
    IF t.call_volume > 3 * (t.put_volume + 1) THEN [add |-> 7, unusual |-> TRUE]
    ELSE IF t.call_volume > 2 * (t.put_volume + 1) THEN [add |-> 3, unusual |-> FALSE]
    ELSE [add |-> 0, unusual |-> FALSE]

\* heavy call buying scores but does not raise the flag
CallPutPointsNoFlag(t) ==
    IF t.call_volume > 3 * (t.put_volume + 1) THEN [add |-> 5, unusual |-> FALSE]
    ELSE IF t.call_volume > 2 * (t.put_volume + 1) THEN [add |-> 3, unusual |-> FALSE]
    ELSE [add |-> 0, unusual |-> FALSE]

\* call_put_ratio = total_call_volume / (total_put_volume + 1), branch taken
CallPutPoints(t) ==
    IF t.call_volume > 3 * (t.put_volume + 1) THEN [add |-> 5, unusual |-> TRUE]
    ELSE IF t.call_volume > 2 * (t.put_volume + 1) THEN [add |-> 3, unusual |-> FALSE]
    ELSE [add |-> 0, unusual |-> FALSE]

\* call_volume_oi_ratio = total_call_volume / (total_call_oi + 1), branch taken
\* (> 0.5 is 2 * cv > oi + 1; > 0.3 is 10 * cv > 3 * (oi + 1))
VolumeOiPoints(t) ==
    IF 2 * t.call_volume > t.call_oi + 1 THEN [add |-> 3, unusual |-> TRUE]
    ELSE IF 10 * t.call_volume > 3 * (t.call_oi + 1) THEN [add |-> 2, unusual |-> FALSE]
    ELSE [add |-> 0, unusual |-> FALSE]

OptionsScored(t) ==
    LET a == CallPutPoints(t)
        b == VolumeOiPoints(t)
        score == Min(a.add + b.add, MaxScore)
    IN  [score |-> score,
         signal |-> SignalLabel(score),
         call_put_ratio |-> Round2(t.call_volume, t.put_volume + 1),
         volume_oi_ratio |-> Round2(t.call_volume, t.call_oi + 1),
         unusual_activity |-> a.unusual \/ b.unusual,
         total_call_volume |-> t.call_volume,
         total_put_volume |-> t.put_volume]

OptionsNoData ==
    [score |-> 0, signal |-> "NO_DATA", call_put_ratio |-> 0, unusual_activity |-> FALSE]

OptionsError ==
    [score |-> 0, signal |-> "ERROR", call_put_ratio |-> 0, unusual_activity |-> FALSE,
     error |-> "exception"]

fetch_options_signal(p) ==
    IF p.listing = "raise" THEN OptionsError
    ELSE IF Len(p.chains) = 0 THEN OptionsNoData
    ELSE OptionsScored(ChainTotals(NearExpirations(p.chains)))

----------------------------------------------------------------------------
(* SIGNAL 2: volume.  The provider's answer p is                           *)
(*   [fetch |-> "raise"]                                                    *)
(*   [fetch |-> "ok", volume |-> <<v1, ..>>, volatility, baseline]         *)
(* volume is the Volume column, oldest row first.  volatility and baseline *)
(* are returns.tail(5).std() and returns.head(30).std() in units of 0.0001 *)
(* (NaN when pandas cannot compute them).  Ratios of means are compared    *)
(* exactly: with k baseline rows of sum S, x / (S / k + 1) > c is          *)
(* x * k > c * (S + k).                                                    *)

NaN == -1

\* the 30 rows before the recent window instead of the oldest 30
BaselineRowsBeforeRecent(volume) ==
    IF Len(volume) <= 30 THEN volume
    ELSE IF Len(volume) < 35 THEN SubSeq(volume, Len(volume) - 29, Len(volume))
    ELSE SubSeq(volume, Len(volume) - 34, Len(volume) - 5)

BaselineRows(volume) == SubSeq(volume, 1, Min(30, Len(volume)))   \* hist.head(30)

RecentRows(volume) == SubSeq(volume, Len(volume) - 4, Len(volume))  \* hist.tail(5)

\* volume_ratio_today = today_volume / (avg_volume_30d + 1), branch taken
TodayPoints(today, S, k) ==
    IF today * k > 3 * (S + k) THEN [add |-> 5, unusual |-> TRUE]
    ELSE IF today * k > 2 * (S + k) THEN [add |-> 3, unusual |-> FALSE]
    ELSE IF 2 * today * k > 3 * (S + k) THEN [add |-> 1, unusual |-> FALSE]
    ELSE [add |-> 0, unusual |-> FALSE]

\* sustained volume scores but does not raise the flag
SustainedPointsNoFlag(S5, S, k) ==
    IF S5 * k > 10 * (S + k) THEN [add |-> 3, unusual |-> FALSE]
    ELSE IF 2 * S5 * k > 15 * (S + k) THEN [add |-> 2, unusual |-> FALSE]
    ELSE [add |-> 0, unusual |-> FALSE]

\* volume_ratio_5d = recent_volume / (avg_volume_30d + 1), recent_volume = S5 / 5
SustainedPoints(S5, S, k) ==
    IF S5 * k > 10 * (S + k) THEN [add |-> 3, unusual |-> TRUE]
    ELSE IF 2 * S5 * k > 15 * (S + k) THEN [add |-> 2, unusual |-> FALSE]
    ELSE [add |-> 0, unusual |-> FALSE]

\* volatility_ratio = volatility / (baseline_volatility + 0.0001) > 2.0;
\* a comparison with NaN is False
VolatilityPoints(volatility, baseline) ==
    IF volatility # NaN /\ baseline # NaN /\ volatility > 2 * (baseline + 1)
    THEN 2 ELSE 0

VolatilityRatio(volatility, baseline) ==
    IF volatility = NaN \/ baseline = NaN THEN NaN
    ELSE Round2(volatility, baseline + 1)

VolumeScored(p) ==
    LET base == BaselineRows(p.volume)
        k == Len(base)
        S == SumSeq(base)
        S5 == SumSeq(RecentRows(p.volume))
        today == p.volume[Len(p.volume)]
        a == TodayPoints(today, S, k)
        b == SustainedPoints(S5, S, k)
        score == Min(a.add + b.add + VolatilityPoints(p.volatility, p.baseline), MaxScore)
    IN  [score |-> score,
         signal |-> SignalLabel(score),
         volume_ratio_today |-> Round2(today * k, S + k),
         volume_ratio_5d |-> Round2(S5 * k, 5 * (S + k)),
         volatility_ratio |-> VolatilityRatio(p.volatility, p.baseline),
         unusual_volume |-> a.unusual \/ b.unusual,
         avg_volume_30d |-> S \div k,
         today_volume |-> today]

\* too short a history reported as a weak signal of score 1
VolumeNoDataWeak ==
    [score |-> 1, signal |-> "WEAK", volume_ratio |-> 0, unusual_volume |-> FALSE]

VolumeNoData ==
    [score |-> 0, signal |-> "NO_DATA", volume_ratio |-> 0, unusual_volume |-> FALSE]

\* an error reported with a score of -1
VolumeErrorNegative ==
    [score |-> -1, signal |-> "ERROR", volume_ratio |-> 0, unusual_volume |-> FALSE,
     error |-> "exception"]

VolumeError ==
    [score |-> 0, signal |-> "ERROR", volume_ratio |-> 0, unusual_volume |-> FALSE,
     error |-> "exception"]

get_volume_signal(p) ==
    IF p.fetch = "raise" THEN VolumeError
    ELSE IF Len(p.volume) < 5 THEN VolumeNoData
    ELSE VolumeScored(p)

----------------------------------------------------------------------------
(* SIGNAL 3: social.  The shared list is a sequence of items               *)
(* [ticker, mentions, rank, upvotes]; a number field is Missing when the   *)
(* key is absent (dict.get gives the default) and Null when the value is   *)
(* JSON null, which makes the comparisons raise TypeError.                 *)

Missing == -1
Null == -2

GetOr(v, default) == IF v = Missing THEN default ELSE v   \* match.get(key, default)

\* the first item whose upper-cased ticker is ticker.upper(): its index, or 0
RECURSIVE FindMatch(_, _, _)
FindMatch(all_tickers, ticker, i) ==
    IF i > Len(all_tickers) THEN 0
    ELSE IF Upper(all_tickers[i].ticker) = Upper(ticker) THEN i
    ELSE FindMatch(all_tickers, ticker, i + 1)

\* rank 5 no longer counts as the top five
RankPointsStrict(rank) ==
    IF rank < 5 THEN [add |-> 5, unusual |-> TRUE]
    ELSE IF rank <= 15 THEN [add |-> 3, unusual |-> FALSE]
    ELSE IF rank <= 30 THEN [add |-> 2, unusual |-> FALSE]
    ELSE IF rank <= 50 THEN [add |-> 1, unusual |-> FALSE]
    ELSE [add |-> 0, unusual |-> FALSE]

RankPoints(rank) ==
    IF rank <= 5 THEN [add |-> 5, unusual |-> TRUE]
    ELSE IF rank <= 15 THEN [add |-> 3, unusual |-> FALSE]
    ELSE IF rank <= 30 THEN [add |-> 2, unusual |-> FALSE]
    ELSE IF rank <= 50 THEN [add |-> 1, unusual |-> FALSE]
    ELSE [add |-> 0, unusual |-> FALSE]

\* a hundred mentions score but do not raise the flag
MentionPointsNoFlag(mentions) ==
    IF mentions >= 100 THEN [add |-> 4, unusual |-> FALSE]
    ELSE IF mentions >= 50 THEN [add |-> 3, unusual |-> FALSE]
    ELSE IF mentions >= 20 THEN [add |-> 2, unusual |-> FALSE]
    ELSE IF mentions >= 10 THEN [add |-> 1, unusual |-> FALSE]
    ELSE [add |-> 0, unusual |-> FALSE]

MentionPoints(mentions) ==
    IF mentions >= 100 THEN [add |-> 4, unusual |-> TRUE]
    ELSE IF mentions >= 50 THEN [add |-> 3, unusual |-> FALSE]
    ELSE IF mentions >= 20 THEN [add |-> 2, unusual |-> FALSE]
    ELSE IF mentions >= 10 THEN [add |-> 1, unusual |-> FALSE]
    ELSE [add |-> 0, unusual |-> FALSE]

SocialNoData ==
    [score |-> 0, signal |-> "NO_DATA", mentions |-> 0, rank |-> 0, upvotes |-> 0,
     unusual_buzz |-> FALSE]

SocialError ==
    [score |-> 0, signal |-> "ERROR", mentions |-> 0, rank |-> 0, upvotes |-> 0,
     unusual_buzz |-> FALSE, error |-> "exception"]

SocialScored(match) ==
    LET mentions == GetOr(match.mentions, 0)
        rank == GetOr(match.rank, 999)
        upvotes == GetOr(match.upvotes, 0)
        a == RankPoints(rank)
        b == MentionPoints(mentions)
        score == Min(a.add + b.add, MaxScore)
    IN  IF rank = Null \/ mentions = Null THEN SocialError
        ELSE [score |-> score,
              signal |-> SignalLabel(score),
              mentions |-> mentions,
              rank |-> rank,
              upvotes |-> upvotes,
              unusual_buzz |-> a.unusual \/ b.unusual]

\* get_social_signal after fetch_apewisdom_data has returned all_tickers
SocialFromList(all_tickers, ticker) ==
    LET i == FindMatch(all_tickers, ticker, 1)
    IN  IF i = 0 THEN SocialNoData ELSE SocialScored(all_tickers[i])

----------------------------------------------------------------------------
(* get_early_warning_score: the weighted score and the alert level *)

\* the weights of options and volume exchanged
WeightedScoreSwapped(options_score, volume_score, social_score) ==
    DblAdd(DblAdd(DblMulInt(DblLit(35), options_score),
                  DblMulInt(DblLit(40), volume_score)),
           DblMulInt(DblLit(25), social_score))

\* weighted_score = 0.40 * options_score + 0.35 * volume_score + 0.25 * social_score
WeightedScore(options_score, volume_score, social_score) ==
    DblAdd(DblAdd(DblMulInt(DblLit(40), options_score),
                  DblMulInt(DblLit(35), volume_score)),
           DblMulInt(DblLit(25), social_score))

\* sum([options unusual_activity, volume unusual_volume, social unusual_buzz])
SignalsTriggered(fo, fv, fs) == BoolToInt(fo) + BoolToInt(fv) + BoolToInt(fs)

AlertLevel(weighted_score, signals_triggered) ==
    IF DblGE(weighted_score, 750) /\ signals_triggered >= 2 THEN "CRITICAL"
    ELSE IF DblGE(weighted_score, 600) \/ signals_triggered >= 2 THEN "HIGH"
    ELSE IF DblGE(weighted_score, 400) THEN "MEDIUM"
    ELSE "LOW"

\* the dict get_early_warning_score returns; early_warning_score is in hundredths.
\* Its "timestamp" (datetime.now().isoformat()) is left out: nothing reads it.
Composite(ticker, options_data, volume_data, social_data) ==
    LET weighted_score ==
            WeightedScore(options_data.score, volume_data.score, social_data.score)
        signals_triggered ==
            SignalsTriggered(options_data.unusual_activity, volume_data.unusual_volume,
                             social_data.unusual_buzz)
    IN  [ticker |-> ticker,
         early_warning_score |-> Round2Dbl(weighted_score),
         alert_level |-> AlertLevel(weighted_score, signals_triggered),
         signals_triggered |-> signals_triggered,
         options_signal |-> options_data,
         volume_signal |-> volume_data,
         social_signal |-> social_data]

----------------------------------------------------------------------------
(* The two caches *)

OptionsTtl == 14400     \* self._options_cache_ttl = 4 * 3600
SocialTtl == 600        \* (now - self._apewisdom_ts).total_seconds() < 600

\* an entry of exactly four hours still served
get_options_signal_inclusive(cache, ticker, p, t) ==
    LET ticker_upper == Upper(ticker)
        cached == cache[ticker_upper]
    IN  IF cached # <<>> /\ t - cached[1].ts <= OptionsTtl
        THEN [data |-> cached[1].data, cache |-> cache, called |-> FALSE]
        ELSE LET result == fetch_options_signal(p)
             IN  [data |-> result,
                  cache |-> [cache EXCEPT ![ticker_upper] = <<[data |-> result, ts |-> t]>>],
                  called |-> TRUE]

\* the entry is never read: every call fetches
get_options_signal_nocache(cache, ticker, p, t) ==
    LET ticker_upper == Upper(ticker)
        result == fetch_options_signal(p)
    IN  [data |-> result,
         cache |-> [cache EXCEPT ![ticker_upper] = <<[data |-> result, ts |-> t]>>],
         called |-> TRUE]

\* an ERROR or NO_DATA result is returned but not stored
get_options_signal_skip_degraded(cache, ticker, p, t) ==
    LET ticker_upper == Upper(ticker)
        cached == cache[ticker_upper]
    IN  IF cached # <<>> /\ t - cached[1].ts < OptionsTtl
        THEN [data |-> cached[1].data, cache |-> cache, called |-> FALSE]
        ELSE LET result == fetch_options_signal(p)
             IN  [data |-> result,
                  cache |-> IF result.signal \in {"ERROR", "NO_DATA"} THEN cache
                            ELSE [cache EXCEPT
                                    ![ticker_upper] = <<[data |-> result, ts |-> t]>>],
                  called |-> TRUE]

\* get_options_signal at time t, the provider answering p if asked:
\* what it returns, the cache afterwards and whether the provider was called
get_options_signal(cache, ticker, p, t) ==
    LET ticker_upper == Upper(ticker)
        cached == cache[ticker_upper]
    IN  IF cached # <<>> /\ t - cached[1].ts < OptionsTtl
        THEN [data |-> cached[1].data, cache |-> cache, called |-> FALSE]
        ELSE LET result == fetch_options_signal(p)
             IN  [data |-> result,
                  cache |-> [cache EXCEPT ![ticker_upper] = <<[data |-> result, ts |-> t]>>],
                  called |-> TRUE]

\* fetch_apewisdom_data: the test of the cached list at time t
ApewisdomFresh(t) ==
    /\ apewisdom_cache # <<>>
    /\ apewisdom_ts # <<>>
    /\ t - apewisdom_ts[1] < SocialTtl

\* no fall-back to the cached list
CacheOrEmptyNoFallback == <<>>

\* self._apewisdom_cache or []
CacheOrEmpty == IF apewisdom_cache = <<>> THEN <<>> ELSE apewisdom_cache[1]

\* fetch_apewisdom_data after the await: resp is [kind |-> "ok", results |-> list]
\* (status 200), [kind |-> "status"] (any other status) or [kind |-> "raise"]
\* (the request or response.json() raises, a timeout included)
ApewisdomReturn(resp) == IF resp.kind = "ok" THEN resp.results ELSE CacheOrEmpty

\* a failed answer is cached too: the list is kept (or set to the empty
\* list) and stamped with the time of the call
ApewisdomStoreFailure(resp, fetch_now) ==
    /\ apewisdom_cache' = IF resp.kind = "ok" THEN <<resp.results>>
                          ELSE IF apewisdom_cache = <<>> THEN << <<>> >>
                          ELSE apewisdom_cache
    /\ apewisdom_ts' = <<fetch_now>>
    /\ ape_version' = IF resp.kind = "ok" THEN ape_version + 1 ELSE ape_version

\* a failed answer empties the cache
ApewisdomStoreClear(resp, fetch_now) ==
    /\ apewisdom_cache' = IF resp.kind = "ok" THEN <<resp.results>> ELSE <<>>
    /\ apewisdom_ts' = IF resp.kind = "ok" THEN <<fetch_now>> ELSE <<>>
    /\ ape_version' = IF resp.kind = "ok" THEN ape_version + 1 ELSE ape_version

\* fetch_apewisdom_data after the await: a 200 answer is stored with the `now`
\* read before the await; any other answer leaves the cache as it is
ApewisdomStore(resp, fetch_now) ==
    /\ apewisdom_cache' = IF resp.kind = "ok" THEN <<resp.results>> ELSE apewisdom_cache
    /\ apewisdom_ts' = IF resp.kind = "ok" THEN <<fetch_now>> ELSE apewisdom_ts
    /\ ape_version' = IF resp.kind = "ok" THEN ape_version + 1 ELSE ape_version

----------------------------------------------------------------------------
(* Bounds and the inputs the environment draws from *)

MaxWatch == 2        \* longest watchlist
MaxLookups == 1      \* get_alert_for_ticker requests

\* the instants at which something happens: both sides of each TTL
Instants == {0, 1, SocialTtl, OptionsTtl, OptionsTtl + 1}

UpperTickers == {"GME", "AMC"}

\* a watchlist entry that is no string (None): ticker.upper() raises
BadTicker == "<None>"

WatchTickers == {"gme", "AMC", BadTicker}

RECURSIVE SeqsUpTo(_, _)
SeqsUpTo(S, n) ==
    IF n = 0 THEN {<<>>}
    ELSE LET shorter == SeqsUpTo(S, n - 1)
         IN  shorter \cup {Append(q, x) : q \in {r \in shorter : Len(r) = n - 1}, x \in S}

Chain(cv, pv, coi) == [ok |-> TRUE, cv |-> cv, pv |-> pv, coi |-> coi, poi |-> 0]
FailedChain == [ok |-> FALSE]

OptionsRaise == [listing |-> "raise"]
\* no expiration listed
OptionsNone == [listing |-> "ok", chains |-> <<>>]
\* one chain of heavy call buying: 4 calls, no puts, no open interest
OptionsHeavy == [listing |-> "ok", chains |-> <<Chain(4, 0, 0)>>]

VolumeRaise == [fetch |-> "raise"]
\* seven rows without volume, then four, then a spike and a burst of volatility
VolumeSpike ==
    [fetch |-> "ok", volume |-> <<0, 0, 0, 0, 0, 0, 0, 0, 0, 0, 0, 61>>,
     volatility |-> 9, baseline |-> 1]

SocialItem(ticker, rank, mentions) ==
    [ticker |-> ticker, rank |-> rank, mentions |-> mentions, upvotes |-> Missing]

SocialOk(list) == [kind |-> "ok", results |-> list]

\* the social provider's answers in the detector runs
SocialAnswers ==
    {SocialOk(<<SocialItem("gme", 1, 150)>>), SocialOk(<<>>),
     [kind |-> "status"], [kind |-> "raise"]}

----------------------------------------------------------------------------
(* The coroutines.  asyncio runs one coroutine at a time and switches only *)
(* at an await that suspends: `await self.client.get(url)` and             *)
(* `await asyncio.sleep(0.2)`.  Everything between two suspensions is one  *)
(* step.  The blocking yfinance calls are taken to be instantaneous; time  *)
(* passes between steps (Tick).                                            *)

Procs == {"scan", "lookup"}

NoFrame == <<>>
NoCall == [proc |-> "none"]

\* the scan is between two suspensions (it holds the event loop)
ScanRunning == pc["scan"] = "loop"

\* what the caller does with the dict get_early_warning_score returned
Deliver(p, result, m) ==
    IF p = "scan"
    THEN /\ results' = Append(results, result)      \* results.append(result)
         /\ meta' = Append(meta, m)
         /\ idx' = idx + 1
         /\ pc' = [pc EXCEPT ![p] = "sleep"]        \* await asyncio.sleep(0.2)
         /\ UNCHANGED out
    ELSE /\ out' = <<result>>                       \* return result
         /\ pc' = [pc EXCEPT ![p] = "idle"]
         /\ UNCHANGED <<results, meta, idx>>

\* get_early_warning_score(ticker) from its start to its first suspension,
\* or to its return when the shared list is served from the cache
Score(p, ticker, po, pv) ==
    LET key == Upper(ticker)
        o == get_options_signal(options_cache, key, po, now)
        v == get_volume_signal(pv)
        call == [proc |-> p, arg |-> ticker, ticker |-> key, t |-> now,
                 opt_age |-> IF options_cache[key] = <<>> THEN -1
                             ELSE now - options_cache[key][1].ts,
                 opt_before |-> options_cache,
                 opt_called |-> o.called,
                 opt_failed |-> o.called /\ po.listing = "raise",
                 vol_failed |-> pv.fetch = "raise",
                 options_data |-> o.data,
                 volume_data |-> v]
    IN  /\ options_cache' = o.cache
        /\ IF ApewisdomFresh(now)
           THEN /\ Deliver(p, Composite(key, o.data, v,
                                        SocialFromList(apewisdom_cache[1], key)),
                           [t |-> now, opt_ts |-> o.cache[key][1].ts,
                            soc_ts |-> apewisdom_ts, ver |-> ape_version])
                /\ last_call' = call @@ [social |-> "hit", cold_age |-> -1]
                /\ frame' = [frame EXCEPT ![p] = NoFrame]
           ELSE /\ pc' = [pc EXCEPT ![p] = "await_social"]
                /\ frame' = [frame EXCEPT ![p] =
                                <<[now |-> now, call |-> call,
                                   opt_ts |-> o.cache[key][1].ts]>>]
                /\ last_call' = call @@ [social |-> "issued",
                                         cold_age |-> IF last_cold = <<>> THEN -1
                                                      ELSE now - last_cold[1]]
                /\ UNCHANGED <<results, meta, idx, out>>
        /\ UNCHANGED <<now, apewisdom_cache, apewisdom_ts, last_cold, ape_version>>

\* the social provider answers the coroutine p: fetch_apewisdom_data,
\* get_social_signal and get_early_warning_score run to their return
SocialResponse(p, resp) ==
    /\ pc[p] = "await_social"
    /\ ~ScanRunning
    /\ LET f == frame[p][1]
           all_tickers == ApewisdomReturn(resp)
           wrote == resp.kind = "ok"
       IN  /\ ApewisdomStore(resp, f.now)
           /\ last_cold' = IF wrote /\ (last_cold = <<>> \/ last_cold[1] < f.now)
                           THEN <<f.now>> ELSE last_cold
           /\ Deliver(p, Composite(f.call.ticker, f.call.options_data, f.call.volume_data,
                                   SocialFromList(all_tickers, f.call.ticker)),
                      [t |-> f.now, opt_ts |-> f.opt_ts,
                       soc_ts |-> apewisdom_ts', ver |-> ape_version'])
           /\ last_call' = f.call @@
                  [social |-> IF wrote THEN "ok"
                              ELSE IF apewisdom_cache = <<>> THEN "failed_nocache"
                              ELSE "failed_stale",
                   cold_age |-> -1]
    /\ frame' = [frame EXCEPT ![p] = NoFrame]
    /\ UNCHANGED <<now, options_cache, watchlist, returned, lookups, inp>>

\* scan_for_alerts is requested: scan_watchlist starts with results = []
ScanStart ==
    /\ pc["scan"] = "idle"
    /\ pc' = [pc EXCEPT !["scan"] = "loop"]
    /\ UNCHANGED <<detVars, frame, scanVars, lookups, inp, out, histVars>>

\* sorted(results, key=lambda x: x['early_warning_score'], reverse=True):
\* Python's sort is stable, also with reverse=True
\* an unstable insertion: x goes before the results of equal score
RECURSIVE InsertDescUnstable(_, _)
InsertDescUnstable(sorted, x) ==
    IF sorted = <<>> THEN <<x>>
    ELSE IF Head(sorted).early_warning_score > x.early_warning_score
         THEN <<Head(sorted)>> \o InsertDescUnstable(Tail(sorted), x)
         ELSE <<x>> \o sorted

RECURSIVE InsertDesc(_, _)
InsertDesc(sorted, x) ==
    IF sorted = <<>> THEN <<x>>
    ELSE IF Head(sorted).early_warning_score >= x.early_warning_score
         THEN <<Head(sorted)>> \o InsertDesc(Tail(sorted), x)
         ELSE <<x>> \o sorted

RECURSIVE SortedDesc(_)
SortedDesc(rs) ==
    IF rs = <<>> THEN <<>>
    ELSE InsertDesc(SortedDesc(SubSeq(rs, 1, Len(rs) - 1)), rs[Len(rs)])

\* the first ticker that raises ends the loop (break instead of continue)
ScanRaiseBreak ==
    /\ returned' = <<SortedDesc(results)>>
    /\ pc' = [pc EXCEPT !["scan"] = "done"]
    /\ UNCHANGED <<detVars, frame, watchlist, idx, results, meta, lookups, inp, out,
                   histVars>>

\* the ticker after the one that raised is passed over as well
ScanRaiseSkip ==
    /\ idx' = idx + 2
    /\ UNCHANGED <<detVars, pc, frame, watchlist, results, returned, meta, lookups, inp,
                   out, histVars>>

\* one turn of the for loop on a ticker whose scoring raises: except, continue
ScanRaise ==
    /\ idx' = idx + 1
    /\ UNCHANGED <<detVars, pc, frame, watchlist, results, returned, meta, lookups, inp,
                   out, histVars>>

\* one turn of the for loop, the providers answering from OA and VA
ScanIter(OA, VA) ==
    /\ pc["scan"] = "loop"
    /\ idx < Len(watchlist)
    /\ IF watchlist[idx + 1] = BadTicker
       THEN ScanRaise
       ELSE /\ \E po \in OA, pv \in VA : Score("scan", watchlist[idx + 1], po, pv)
            /\ UNCHANGED <<watchlist, returned, lookups, inp>>

\* asyncio.sleep(0.2) is over
ScanWake ==
    /\ pc["scan"] = "sleep"
    /\ pc' = [pc EXCEPT !["scan"] = "loop"]
    /\ UNCHANGED <<detVars, frame, scanVars, lookups, inp, out, histVars>>

\* the for loop is exhausted: sort and return
ScanReturn ==
    /\ pc["scan"] = "loop"
    /\ idx = Len(watchlist)
    /\ returned' = <<SortedDesc(results)>>
    /\ pc' = [pc EXCEPT !["scan"] = "done"]
    /\ UNCHANGED <<detVars, frame, watchlist, idx, results, meta, lookups, inp, out,
                   histVars>>

\* get_alert_for_ticker(ticker): detector.get_early_warning_score(ticker.upper())
Lookup(ticker, OA, VA) ==
    /\ pc["lookup"] = "idle"
    /\ ~ScanRunning
    /\ lookups < MaxLookups
    /\ lookups' = lookups + 1
    /\ \E po \in OA, pv \in VA : Score("lookup", Upper(ticker), po, pv)
    /\ UNCHANGED <<watchlist, returned, inp>>

\* time passes
Tick ==
    /\ \E t \in Instants : t > now /\ now' = t
    /\ UNCHANGED <<options_cache, apewisdom_cache, apewisdom_ts, pc, frame, scanVars,
                   lookups, inp, out, histVars>>

\* the detector after __init__, nothing requested yet
Fresh ==
    /\ now = 0
    /\ options_cache = [t \in UpperTickers |-> <<>>]
    /\ apewisdom_cache = <<>>
    /\ apewisdom_ts = <<>>
    /\ pc = [p \in Procs |-> "idle"]
    /\ frame = [p \in Procs |-> NoFrame]
    /\ idx = 0
    /\ results = <<>>
    /\ returned = <<>>
    /\ lookups = 0
    /\ out = <<>>
    /\ meta = <<>>
    /\ last_call = NoCall
    /\ last_cold = <<>>
    /\ ape_version = 0

----------------------------------------------------------------------------
(* Spec: a watchlist scan and single-ticker lookups on one detector, the   *)
(* options and history providers always answering.                         *)

Init ==
    /\ Fresh
    /\ watchlist \in SeqsUpTo(WatchTickers, MaxWatch)
    /\ inp = <<>>

Next ==
    \/ ScanStart
    \/ ScanIter({OptionsHeavy}, {VolumeSpike})
    \/ ScanWake
    \/ ScanReturn
    \/ \E ticker \in {"gme", "AMC"} : Lookup(ticker, {OptionsHeavy}, {VolumeSpike})
    \/ \E p \in Procs, resp \in SocialAnswers : SocialResponse(p, resp)
    \/ Tick

Spec == Init /\ [][Next]_vars

----------------------------------------------------------------------------
(* SpecScan: one watchlist scan, every provider free to fail at every call *)

NextScan ==
    \/ ScanStart
    \/ ScanIter({OptionsRaise, OptionsHeavy}, {VolumeRaise, VolumeSpike})
    \/ ScanWake
    \/ ScanReturn
    \/ \E resp \in SocialAnswers : SocialResponse("scan", resp)
    \/ Tick

SpecScan == Init /\ [][NextScan]_vars

----------------------------------------------------------------------------
(* SpecScore: the composite of get_early_warning_score on every triple of  *)
(* signal scores and unusual flags                                         *)

ScoreInputs ==
    [o : 0..MaxScore, v : 0..MaxScore, s : 0..MaxScore,
     fo : BOOLEAN, fv : BOOLEAN, fs : BOOLEAN]

InitScore ==
    /\ Fresh
    /\ watchlist = <<>>
    /\ inp \in ScoreInputs

\* get_early_warning_score once the three signals are in
Compose ==
    /\ out = <<>>
    /\ out' = <<Composite("GME",
                          [score |-> inp.o, unusual_activity |-> inp.fo],
                          [score |-> inp.v, unusual_volume |-> inp.fv],
                          [score |-> inp.s, unusual_buzz |-> inp.fs])>>
    /\ UNCHANGED <<detVars, pc, frame, scanVars, lookups, inp, histVars>>

NextScore == Compose

SpecScore == InitScore /\ [][NextScore]_vars

----------------------------------------------------------------------------
(* SpecFetch: one caller invoking one of the three signal methods again    *)
(* and again as time passes, on a wide range of provider answers.  inp is  *)
(* [kind, ticker, answer]: the method, its argument and what the provider  *)
(* answers whenever it is asked.                                           *)

MaxVol == 4          \* largest call volume of one chain
MaxPut == 1          \* largest put volume of one chain
MaxOI == 7           \* largest call open interest of one chain
MaxRows == 36        \* most history rows

ChainInputs ==
    {Chain(cv, pv, coi) : cv \in 0..MaxVol, pv \in 0..MaxPut, coi \in {0, MaxOI}}
        \cup {FailedChain}

\* none, one or two expirations, or three of which the last must be ignored
OptionsInputs ==
    {OptionsRaise}
        \cup {[listing |-> "ok", chains |-> c] : c \in SeqsUpTo(ChainInputs, 2)}
        \cup {[listing |-> "ok", chains |-> Append(c, Chain(MaxVol, 0, 0))] :
                c \in {r \in SeqsUpTo(ChainInputs, 2) : Len(r) = 2}}

\* n rows: `quiet` each, then four rows of `recent`, then today's
History(n, quiet, recent, today) ==
    [i \in 1..n |-> IF i = n THEN today ELSE IF i > n - 5 THEN recent ELSE quiet]

VolumeInputs ==
    {VolumeRaise}
        \cup {[fetch |-> "ok", volume |-> History(n, quiet, recent, today),
               volatility |-> vol, baseline |-> base] :
                n \in 0..MaxRows, quiet \in {0, 10}, recent \in {0, 10, 20},
                today \in {0, 10, 30, 61}, vol \in {NaN, 0, 9}, base \in {NaN, 1}}

RankInputs == {Missing, Null, 1, 5, 6, 15, 16, 30, 31, 50, 51}
MentionInputs == {Missing, Null, 0, 9, 10, 19, 20, 49, 50, 99, 100}

SocialLists ==
    {<<>>}
        \cup {<<SocialItem("gme", r, m)>> : r \in RankInputs, m \in MentionInputs}
        \cup {<<SocialItem("AMC", 1, 100), SocialItem("gme", r, m)>> :
                r \in RankInputs, m \in MentionInputs}

SocialInputs == {SocialOk(l) : l \in SocialLists} \cup {[kind |-> "status"], [kind |-> "raise"]}

FetchInputs ==
    {[kind |-> "options", ticker |-> "gme", answer |-> a] : a \in OptionsInputs}
        \cup {[kind |-> "volume", ticker |-> "gme", answer |-> a] : a \in VolumeInputs}
        \cup {[kind |-> "social", ticker |-> t, answer |-> a] :
                t \in {"GME", "amc"}, a \in SocialInputs}

InitFetch ==
    /\ Fresh
    /\ watchlist = <<>>
    /\ inp \in FetchInputs

\* detector.get_options_signal(ticker)
CallOptions ==
    /\ inp.kind = "options"
    /\ LET o == get_options_signal(options_cache, inp.ticker, inp.answer, now)
       IN  /\ options_cache' = o.cache
           /\ out' = <<o.data>>
           /\ last_call' = [proc |-> "direct", called |-> o.called]
    /\ UNCHANGED <<now, apewisdom_cache, apewisdom_ts, pc, frame, scanVars, lookups, inp,
                   last_cold, ape_version>>

\* detector.get_volume_signal(ticker)
CallVolume ==
    /\ inp.kind = "volume"
    /\ out' = <<get_volume_signal(inp.answer)>>
    /\ last_call' = [proc |-> "direct", called |-> TRUE]
    /\ UNCHANGED <<detVars, pc, frame, scanVars, lookups, inp, last_cold, ape_version>>

\* await detector.get_social_signal(ticker), the provider answering at once
CallSocial ==
    /\ inp.kind = "social"
    /\ IF ApewisdomFresh(now)
       THEN /\ out' = <<SocialFromList(apewisdom_cache[1], inp.ticker)>>
            /\ last_call' = [proc |-> "direct", called |-> FALSE]
            /\ UNCHANGED <<apewisdom_cache, apewisdom_ts, ape_version>>
       ELSE /\ ApewisdomStore(inp.answer, now)
            /\ out' = <<SocialFromList(ApewisdomReturn(inp.answer), inp.ticker)>>
            /\ last_call' = [proc |-> "direct", called |-> TRUE]
    /\ UNCHANGED <<now, options_cache, pc, frame, scanVars, lookups, inp, last_cold>>

NextFetch ==
    \/ CallOptions
    \/ CallVolume
    \/ CallSocial
    \/ Tick

SpecFetch == InitFetch /\ [][NextFetch]_vars

----------------------------------------------------------------------------
(* SpecOptions: one caller invoking get_options_signal for either ticker   *)
(* as time passes, the options provider free to fail, to list nothing or   *)
(* to answer at every call.  last_call records the call: the cache before  *)
(* it and what the provider would answer (offered).                        *)

OptionsAnswers == {OptionsRaise, OptionsNone, OptionsHeavy}

InitOptions ==
    /\ Fresh
    /\ watchlist = <<>>
    /\ inp = <<>>

\* detector.get_options_signal(ticker), the provider answering po if asked
LookupOptions(ticker, po) ==
    /\ LET o == get_options_signal(options_cache, ticker, po, now)
       IN  /\ options_cache' = o.cache
           /\ out' = <<o.data>>
           /\ last_call' = [proc |-> "options", ticker |-> Upper(ticker), t |-> now,
                            before |-> options_cache, called |-> o.called,
                            offered |-> fetch_options_signal(po)]
    /\ UNCHANGED <<now, apewisdom_cache, apewisdom_ts, pc, frame, scanVars, lookups, inp,
                   last_cold, ape_version>>

NextOptions ==
    \/ \E ticker \in {"gme", "AMC"}, po \in OptionsAnswers : LookupOptions(ticker, po)
    \/ Tick

SpecOptions == InitOptions /\ [][NextOptions]_vars

----------------------------------------------------------------------------
(* SpecReach: get_early_warning_score on a detector with empty caches, the *)
(* three signals computed by the fetchers from the providers' answers.     *)
(* The answers are chosen so that every combination of branches of each    *)
(* fetcher's scoring is taken, besides its NO_DATA and ERROR returns.      *)

\* one expiration; call/put ratio 2, 3 and 4; volume/OI ratio above 0.5, in
\* (0.3, 0.5] and at most 0.3 for each of them
ReachOptions ==
    {OptionsRaise, OptionsNone}
        \cup {[listing |-> "ok", chains |-> <<Chain(cv, 0, coi)>>] :
                cv \in 2..4, coi \in {0, 4, 7, 13}}

\* 35 rows, a baseline of 10 a day: today's ratio in each of its four
\* bands, the five-day ratio in each of its three, volatility high, low and NaN
ReachVolume ==
    {VolumeRaise, [fetch |-> "ok", volume |-> <<>>, volatility |-> NaN, baseline |-> NaN]}
        \cup {[fetch |-> "ok", volume |-> History(35, 10, recent, today),
               volatility |-> vol, baseline |-> 1] :
                recent \in {0, 15, 20, 30}, today \in {10, 20, 30, 40},
                vol \in {NaN, 0, 9}}

\* the ticker absent, with a null rank, and with rank and mentions in each
\* of their five bands
ReachSocial ==
    {<<>>, <<SocialItem("GME", Null, 0)>>}
        \cup {<<SocialItem("GME", r, m)>> :
                r \in {1, 10, 20, 40, Missing}, m \in {0, 10, 20, 50, 100}}

InitReach ==
    /\ Fresh
    /\ watchlist = <<>>
    /\ inp \in [kind : {"composite"}, ticker : {"gme"},
                po : ReachOptions, pv : ReachVolume, ps : ReachSocial]

\* get_early_warning_score(ticker), the social provider answering at once
Evaluate ==
    /\ out = <<>>
    /\ LET o == get_options_signal(options_cache, inp.ticker, inp.po, now)
           v == get_volume_signal(inp.pv)
           resp == SocialOk(inp.ps)
       IN  /\ options_cache' = o.cache
           /\ ApewisdomStore(resp, now)
           /\ out' = <<Composite(Upper(inp.ticker), o.data, v,
                                 SocialFromList(ApewisdomReturn(resp), inp.ticker))>>
    /\ UNCHANGED <<now, pc, frame, scanVars, lookups, inp, last_call, last_cold>>

NextReach == Evaluate

SpecReach == InitReach /\ [][NextReach]_vars

----------------------------------------------------------------------------
(* The claims *)

Perms(n) == {f \in [1..n -> 1..n] : \A i, j \in 1..n : i # j => f[i] # f[j]}

\* the watchlist entries whose scoring does not raise
GoodEntries == SelectSeq(watchlist, LAMBDA t : t # BadTicker)

\* the last get_early_warning_score call has returned and was made by the scan
ScanCallDone == last_call.proc = "scan" /\ last_call.social # "issued"

\* C1: for all scores in 0..10 and all flags, 100 * early_warning_score is
\* 40 * o + 35 * v + 25 * s, signals_triggered counts the true flags and lies
\* in 0..3, and (10, 0, 0) gives 4.00
C1_WeightedScore ==
    out # <<>> =>
        /\ out[1].early_warning_score = 40 * inp.o + 35 * inp.v + 25 * inp.s
        /\ out[1].signals_triggered = Cardinality({f \in {"fo", "fv", "fs"} : inp[f]})
        /\ out[1].signals_triggered \in 0..3
        /\ (inp.o = 10 /\ inp.v = 0 /\ inp.s = 0 => out[1].early_warning_score = 400)

C1_Witness ==
    /\ out # <<>>
    /\ inp.o = 10 /\ inp.v = 0 /\ inp.s = 0 /\ inp.fo /\ ~inp.fv /\ ~inp.fs
    /\ out[1].early_warning_score = 400
    /\ out[1].signals_triggered = 1

\* the claim's precedence on a weighted score w (hundredths) and a count n
ClaimedLevel(w, n) ==
    IF w >= 750 /\ n >= 2 THEN "CRITICAL"
    ELSE IF w >= 600 \/ n >= 2 THEN "HIGH"
    ELSE IF w >= 400 THEN "MEDIUM"
    ELSE "LOW"

C3_ScoreInRange ==
    /\ out # <<>> => out[1].score \in 0..MaxScore
    /\ \A t \in UpperTickers :
           options_cache[t] # <<>> => options_cache[t][1].data.score \in 0..MaxScore

C3_Witness ==
    /\ out # <<>>
    /\ inp.kind = "volume"
    /\ out[1].score = MaxScore

\* C4: once a fetch of the shared list has succeeded, no call made less than
\* 600 s after it asks the social provider again
C4_NoRefetchInWindow ==
    (last_call.proc \in Procs /\ last_call.social = "issued" /\ last_call.cold_age # -1)
        => last_call.cold_age >= SocialTtl

\* C5: the scan returns exactly one result per watchlist entry whose scoring
\* does not raise, none for an entry whose scoring raises, and goes on to the
\* entries after it
C5_FailingTickerOmitted ==
    pc["scan"] = "done" =>
        /\ returned # <<>>
        /\ Len(results) = Len(GoodEntries)
        /\ \A i \in 1..Len(results) : results[i].ticker = Upper(GoodEntries[i])
        /\ Len(returned[1]) = Len(results)
        /\ \E f \in Perms(Len(results)) :
               \A i \in 1..Len(results) : returned[1][i] = results[f[i]]

C5_Witness ==
    /\ pc["scan"] = "done"
    /\ watchlist = <<BadTicker, "AMC">>
    /\ Len(returned[1]) = 1
    /\ returned[1][1].ticker = "AMC"

\* C6: the returned list is a permutation of the collected results, in
\* non-increasing order of early_warning_score, equal scores in the order in
\* which they were collected
C6_SortedStable ==
    returned # <<>> =>
        /\ Len(returned[1]) = Len(results)
        /\ \E f \in Perms(Len(results)) :
               /\ \A i \in 1..Len(results) : returned[1][i] = results[f[i]]
               /\ \A i, j \in 1..Len(results) :
                      i < j =>
                          /\ returned[1][i].early_warning_score
                                >= returned[1][j].early_warning_score
                          /\ returned[1][i].early_warning_score
                                = returned[1][j].early_warning_score => f[i] < f[j]

C6_Witness ==
    /\ returned # <<>>
    /\ Len(returned[1]) = 2
    /\ returned[1][1].early_warning_score = returned[1][2].early_warning_score
    /\ returned[1][1] # returned[1][2]
    /\ returned[1] = results

\* two results of one scan for the same ticker, the second call made within
\* the windows of the entries the first call read or stored
InWindows(i, j) ==
    /\ i < j
    /\ results[i].ticker = results[j].ticker
    /\ meta[j].t - meta[i].opt_ts < OptionsTtl
    /\ meta[i].soc_ts # <<>>
    /\ meta[j].t - meta[i].soc_ts[1] < SocialTtl

\* C7 as claimed: two calls for the same ticker within the cache windows
\* return identical options_signal, volume_signal and social_signal
C7_AllSubObjectsIdentical ==
    \A i, j \in 1..Len(results) :
        InWindows(i, j) =>
            /\ results[i].options_signal = results[j].options_signal
            /\ results[i].volume_signal = results[j].volume_signal
            /\ results[i].social_signal = results[j].social_signal

\* C7 amended: the options_signal is identical when the second call is made
\* less than 14400 s after the entry was stored; the social_signal is identical
\* when both calls read the same stored list, which is the case in one scan
\* when the second call is made less than 600 s after the list was fetched;
\* nothing is said of the volume_signal
C7_CachedSubObjectsIdentical ==
    \A i, j \in 1..Len(results) :
        (i < j /\ results[i].ticker = results[j].ticker) =>
            /\ meta[j].t - meta[i].opt_ts < OptionsTtl
                   => results[i].options_signal = results[j].options_signal
            /\ meta[i].ver = meta[j].ver
                   => results[i].social_signal = results[j].social_signal
            /\ (meta[i].soc_ts # <<>> /\ meta[j].t - meta[i].soc_ts[1] < SocialTtl)
                   => meta[i].ver = meta[j].ver

C7_Witness ==
    \E i, j \in 1..Len(results) :
        /\ InWindows(i, j)
        /\ results[i].options_signal = results[j].options_signal
        /\ results[i].social_signal = results[j].social_signal
        /\ results[i].social_signal.score > 0
        /\ results[i].volume_signal # results[j].volume_signal

\* C8: get_options_signal keeps one entry per upper-cased ticker; an entry
\* younger than 14400 s is returned as stored and the provider is not called;
\* with no entry, or one of 14400 s or more, the provider is called and the
\* entry becomes the new result with the time of the call
C8_OptionsCache ==
    last_call.proc \in Procs =>
        LET key == last_call.ticker
        IN  /\ key \in UpperTickers
            /\ last_call.arg = "gme" => key = "GME"
            /\ \A k \in UpperTickers \ {key} : options_cache[k] = last_call.opt_before[k]
            /\ IF last_call.opt_age # -1 /\ last_call.opt_age < OptionsTtl
               THEN /\ ~last_call.opt_called
                    /\ last_call.options_data = last_call.opt_before[key][1].data
                    /\ options_cache[key] = last_call.opt_before[key]
               ELSE /\ last_call.opt_called
                    /\ options_cache[key]
                         = <<[data |-> last_call.options_data, ts |-> last_call.t]>>

C8_Witness ==
    /\ last_call.proc \in Procs
    /\ last_call.arg = "gme"
    /\ last_call.opt_age = OptionsTtl
    /\ last_call.opt_called
    /\ last_call.options_data # last_call.opt_before["GME"][1].data
    /\ options_cache["GME"][1].ts = last_call.t

\* C9 as claimed: whatever providers fail, get_early_warning_score returns a
\* result in which each failed signal has score 0, and the scan is not aborted
C9_FailedSignalsScoreZero ==
    /\ ScanCallDone =>
           LET r == results[Len(results)]
           IN  /\ last_call.opt_failed => r.options_signal.score = 0
               /\ last_call.vol_failed => r.volume_signal.score = 0
               /\ last_call.social \in {"failed_nocache", "failed_stale"}
                      => r.social_signal.score = 0
    /\ pc["scan"] = "done" => Len(results) = Len(GoodEntries)

\* C9 amended: a failed options or history fetch gives score 0; a failed
\* social fetch gives score 0 when no shared list was ever stored and is
\* otherwise scored from the stored list, however old; nothing is raised and
\* the scan is not aborted
C9_FailuresDegrade ==
    /\ ScanCallDone =>
           LET r == results[Len(results)]
           IN  /\ r.ticker = last_call.ticker
               /\ last_call.opt_failed
                      => r.options_signal.score = 0 /\ r.options_signal.signal = "ERROR"
               /\ last_call.vol_failed
                      => r.volume_signal.score = 0 /\ r.volume_signal.signal = "ERROR"
               /\ last_call.social = "failed_nocache"
                      => r.social_signal.score = 0 /\ r.social_signal.signal = "NO_DATA"
               /\ last_call.social = "failed_stale"
                      => /\ apewisdom_cache # <<>>
                         /\ r.social_signal = SocialFromList(apewisdom_cache[1], r.ticker)
    /\ pc["scan"] = "done" => Len(results) = Len(GoodEntries)

C9_Witness ==
    /\ ScanCallDone
    /\ last_call.opt_failed
    /\ last_call.vol_failed
    /\ last_call.social = "failed_stale"
    /\ results[Len(results)].social_signal.score > 0
    /\ results[Len(results)].early_warning_score = 225

\* C10: an options result computed from a call/put ratio above 3.0 has its
\* unusual flag set, whatever the volume/open-interest ratio
C10_HeavyCallsUnusual ==
    (out # <<>> /\ inp.kind = "options" /\ "total_call_volume" \in DOMAIN out[1]) =>
        ((\/ out[1].call_put_ratio > 300
          \/ out[1].total_call_volume > 3 * (out[1].total_put_volume + 1))
            => out[1].unusual_activity)

C10_Witness ==
    /\ out # <<>>
    /\ inp.kind = "options"
    /\ "total_call_volume" \in DOMAIN out[1]
    /\ out[1].call_put_ratio > 300
    /\ out[1].volume_oi_ratio <= 30
    /\ out[1].score = 5
    /\ out[1].unusual_activity

\* C11: whenever the history provider returns 0 to 4 rows, whatever their
\* values, get_volume_signal returns score 0, label NO_DATA and unusual false
C11_ShortHistoryNoData ==
    (out # <<>> /\ inp.kind = "volume" /\ inp.answer.fetch = "ok"
        /\ Len(inp.answer.volume) < 5) =>
            /\ out[1].score = 0
            /\ out[1].signal = "NO_DATA"
            /\ ~out[1].unusual_volume
            /\ DOMAIN out[1] = {"score", "signal", "volume_ratio", "unusual_volume"}

C11_Witness ==
    /\ out # <<>>
    /\ inp.kind = "volume"
    /\ inp.answer.fetch = "ok"
    /\ Len(inp.answer.volume) = 4
    /\ inp.answer.volume[4] = 61
    /\ inp.answer.volume[1] = 20
    /\ out[1].signal = "NO_DATA"

\* the last get_early_warning_score call of the scan has returned after a
\* failed social provider call (a status other than 200, or an exception)
SocialFetchFailed ==
    ScanCallDone /\ last_call.social \in {"failed_nocache", "failed_stale"}

\* C12: when the social provider call fails, the social signal is computed
\* from the stored shared list if there is one, however old, the list and its
\* timestamp staying as they were, and from the empty list otherwise; with an
\* empty list the signal is NO_DATA with score 0 for every ticker
C12_FailureFallsBack ==
    SocialFetchFailed =>
        LET r == results[Len(results)]
            m == meta[Len(meta)]
        IN  /\ apewisdom_cache = <<>>
                => /\ r.social_signal = SocialFromList(<<>>, last_call.ticker)
                   /\ apewisdom_ts = <<>>
            /\ apewisdom_cache # <<>>
                => /\ r.social_signal = SocialFromList(apewisdom_cache[1], last_call.ticker)
                   /\ apewisdom_ts # <<>>
                   /\ last_call.t - apewisdom_ts[1] >= SocialTtl
            /\ (apewisdom_cache = <<>> \/ apewisdom_cache = << <<>> >>)
                => /\ r.social_signal.signal = "NO_DATA"
                   /\ r.social_signal.score = 0
                   /\ ~r.social_signal.unusual_buzz
            /\ m.soc_ts = apewisdom_ts

C12_Witness ==
    /\ SocialFetchFailed
    /\ apewisdom_cache # <<>>
    /\ last_call.t - apewisdom_ts[1] >= OptionsTtl
    /\ results[Len(results)].social_signal.signal = "STRONG"
    /\ results[Len(results)].social_signal.score = 9

\* the provider answer taken in this step by coroutine p refreshes the list
Refreshes(p) ==
    /\ frame[p] # NoFrame
    /\ frame'[p] = NoFrame
    /\ ape_version' = ape_version + 1

\* C13: the shared list is refreshed at most once per 600 s window, also when
\* a scan and a lookup interleave: a refresh is never issued less than 600 s
\* before or after the issue of another refresh, and two provider calls are
\* never outstanding for the same window
C13_OneRefreshPerWindow ==
    [][/\ \A p \in Procs :
              (Refreshes(p) /\ last_cold # <<>>) =>
                  \/ frame[p][1].now - last_cold[1] >= SocialTtl
                  \/ last_cold[1] - frame[p][1].now >= SocialTtl
       /\ \A p, q \in Procs :
              (p # q /\ frame'[p] # NoFrame /\ frame'[q] # NoFrame) =>
                  \/ frame'[p][1].now - frame'[q][1].now >= SocialTtl
                  \/ frame'[q][1].now - frame'[p][1].now >= SocialTtl]_vars

\* C14: within one scan the watchlist entries are evaluated in order, one at
\* a time and each exactly once: the position advances by single steps, each
\* advance ends the evaluation of the entry at that position (it raised, or
\* its result was appended), a scoring in progress is that of the entry at
\* the position and no other is started before it ends, and the scan returns
\* only after the last entry
C14_SequentialOrder ==
    [][/\ idx' \in {idx, idx + 1}
       /\ idx' <= Len(watchlist)
       /\ frame'["scan"] # NoFrame =>
              /\ pc'["scan"] = "await_social"
              /\ idx' < Len(watchlist)
              /\ frame'["scan"][1].call.arg = watchlist[idx' + 1]
       /\ (frame["scan"] # NoFrame /\ frame'["scan"] # NoFrame) =>
              (frame'["scan"] = frame["scan"] /\ idx' = idx)
       /\ idx' = idx + 1 =>
              \/ watchlist[idx + 1] = BadTicker /\ results' = results
              \/ /\ watchlist[idx + 1] # BadTicker
                 /\ Len(results') = Len(results) + 1
                 /\ SubSeq(results', 1, Len(results)) = results
                 /\ results'[Len(results')].ticker = Upper(watchlist[idx + 1])
       /\ idx' = idx => results' = results
       /\ pc'["scan"] = "done" => idx' = Len(watchlist)]_vars

C14_Witness ==
    /\ watchlist = <<"gme", "AMC">>
    /\ idx = 1
    /\ Len(results) = 1
    /\ results[1].ticker = "GME"
    /\ frame["scan"] # NoFrame
    /\ frame["scan"][1].call.arg = "AMC"

\* C15: between the evaluations of every two consecutive tickers the scan
\* sleeps: whenever the evaluation of a ticker that is not the last ends,
\* by a result or by an exception, the scan goes to sleep before it evaluates
\* the next ticker
C15_DelayBetweenTickers ==
    [][(idx' = idx + 1 /\ idx' < Len(watchlist)) => pc'["scan"] = "sleep"]_vars

\* the same for the evaluations that end with a result
C15_DelayAfterResult ==
    [][(idx' = idx + 1 /\ results' # results) => pc'["scan"] = "sleep"]_vars

\* C16: every result of the three signal methods carries one of the five
\* labels; NO_DATA and ERROR come with score 0; any other result is STRONG
\* iff its score is at least 7, MODERATE iff it is 4, 5 or 6 and WEAK iff it is
\* below 4; hence a score of 0 is labelled NO_DATA, ERROR or WEAK
C16_LabelMatchesScore ==
    out # <<>> =>
        LET r == out[1]
        IN  /\ r.signal \in {"STRONG", "MODERATE", "WEAK", "NO_DATA", "ERROR"}
            /\ r.signal \in {"NO_DATA", "ERROR"} => r.score = 0
            /\ r.signal \notin {"NO_DATA", "ERROR"} =>
                   /\ r.signal = "STRONG" <=> r.score >= 7
                   /\ r.signal = "MODERATE" <=> (4 <= r.score /\ r.score < 7)
                   /\ r.signal = "WEAK" <=> r.score < 4
            /\ r.score = 0 => r.signal \in {"NO_DATA", "ERROR", "WEAK"}

C16_Witness ==
    /\ out # <<>>
    /\ inp.kind = "options"
    /\ out[1].score = 7
    /\ out[1].signal = "STRONG"

\* the sum of field f over the chains at the positions 1 and 2 (those that
\* exist) whose fetch succeeded
SelectedSum(chains, f) ==
    LET at(i) == IF i <= Len(chains) /\ chains[i].ok THEN chains[i][f] ELSE 0
    IN  at(1) + at(2)

\* C17: with at least one expiration listed, the totals of a fresh options
\* result are the sums over the first two expirations (the only one if there
\* is one) whose chain fetch succeeded, later expirations and failed chains
\* contributing nothing; when every selected chain fetch fails the result
\* has score 0, label WEAK and unusual false
C17_NearestTwoExpirations ==
    (out # <<>> /\ inp.kind = "options" /\ inp.answer.listing = "ok"
        /\ Len(inp.answer.chains) >= 1) =>
            LET c == inp.answer.chains
                r == out[1]
                cv == SelectedSum(c, "cv")
                pv == SelectedSum(c, "pv")
                coi == SelectedSum(c, "coi")
            IN  /\ r.signal \notin {"NO_DATA", "ERROR"}
                /\ r.total_call_volume = cv
                /\ r.total_put_volume = pv
                /\ r.call_put_ratio = Round2(cv, pv + 1)
                /\ r.volume_oi_ratio = Round2(cv, coi + 1)
                /\ (\A i \in 1..Len(c) : i <= 2 => ~c[i].ok) =>
                       (r.score = 0 /\ r.signal = "WEAK" /\ ~r.unusual_activity)

\* three expirations, the second of which fails and the third of which has
\* volume: only the first is counted
C17_Witness ==
    /\ out # <<>>
    /\ inp.kind = "options"
    /\ inp.answer.listing = "ok"
    /\ Len(inp.answer.chains) = 3
    /\ inp.answer.chains[1].ok
    /\ inp.answer.chains[1].cv = 1
    /\ ~inp.answer.chains[2].ok
    /\ inp.answer.chains[3].cv = MaxVol
    /\ out[1].total_call_volume = 1

\* every selected chain fetch fails
C17_WitnessAllFailed ==
    /\ out # <<>>
    /\ inp.kind = "options"
    /\ inp.answer.listing = "ok"
    /\ inp.answer.chains = <<FailedChain, FailedChain>>
    /\ out[1].signal = "WEAK"

\* the claimed contributions of rank and mentions
ClaimedR(rank) ==
    CASE rank <= 5 -> 5 [] rank > 5 /\ rank <= 15 -> 3 [] rank > 15 /\ rank <= 30 -> 2
      [] rank > 30 /\ rank <= 50 -> 1 [] OTHER -> 0

ClaimedM(mentions) ==
    CASE mentions >= 100 -> 4 [] mentions < 100 /\ mentions >= 50 -> 3
      [] mentions < 50 /\ mentions >= 20 -> 2 [] mentions < 20 /\ mentions >= 10 -> 1
      [] OTHER -> 0

\* the items of the provider's list that are the ticker asked for
Matching == {i \in 1..Len(inp.answer.results) :
                Upper(inp.answer.results[i].ticker) = Upper(inp.ticker)}

\* C18: for a ticker found in the shared list with integer rank and mentions,
\* the social score is min(10, R + M) and unusual is true exactly when
\* rank <= 5 or mentions >= 100
C18_SocialScoring ==
    (out # <<>> /\ inp.kind = "social" /\ inp.answer.kind = "ok") =>
        \A i \in Matching :
            LET item == inp.answer.results[i]
            IN  (item.rank \notin {Missing, Null} /\ item.mentions \notin {Missing, Null}) =>
                    /\ out[1].score = Min(10, ClaimedR(item.rank) + ClaimedM(item.mentions))
                    /\ out[1].unusual_buzz <=> (item.rank <= 5 \/ item.mentions >= 100)
                    /\ out[1].rank = item.rank
                    /\ out[1].mentions = item.mentions

C18_Witness ==
    /\ out # <<>>
    /\ inp.kind = "social"
    /\ inp.ticker = "GME"
    /\ inp.answer.kind = "ok"
    /\ Len(inp.answer.results) = 2
    /\ inp.answer.results[2].rank = 5
    /\ inp.answer.results[2].mentions = 99
    /\ out[1].score = 8
    /\ out[1].unusual_buzz

\* the rows the claim names for a history of n rows
ClaimedBaseline(n) == 1..Min(30, n)
ClaimedRecent(n) == (n - 4)..n

RECURSIVE SumOver(_, _)
SumOver(volume, rows) ==
    IF rows = {} THEN 0
    ELSE LET i == CHOOSE j \in rows : TRUE
         IN  volume[i] + SumOver(volume, rows \ {i})

\* C19: for a history of n >= 5 rows the baseline average is taken over the
\* rows 1..min(30, n) and the recent average over the rows n-4..n; the two
\* sets of rows are disjoint exactly when n >= 35, and for n <= 30 every
\* recent row, today's included, is a baseline row
C19_BaselineAndRecentRows ==
    (out # <<>> /\ inp.kind = "volume" /\ inp.answer.fetch = "ok"
        /\ Len(inp.answer.volume) >= 5) =>
            LET v == inp.answer.volume
                n == Len(v)
                k == Cardinality(ClaimedBaseline(n))
                S == SumOver(v, ClaimedBaseline(n))
                S5 == SumOver(v, ClaimedRecent(n))
            IN  /\ out[1].avg_volume_30d = S \div k
                /\ out[1].today_volume = v[n]
                /\ out[1].volume_ratio_today = Round2(v[n] * k, S + k)
                /\ out[1].volume_ratio_5d = Round2(S5 * k, 5 * (S + k))
                /\ (ClaimedBaseline(n) \cap ClaimedRecent(n) = {}) <=> n >= 35
                /\ n <= 30 => ClaimedRecent(n) \subseteq ClaimedBaseline(n)

\* 35 rows: thirty quiet rows are the baseline, the five recent rows are not
\* part of it
C19_Witness ==
    /\ out # <<>>
    /\ inp.kind = "volume"
    /\ inp.answer.fetch = "ok"
    /\ Len(inp.answer.volume) = 35
    /\ inp.answer.volume[30] = 10
    /\ inp.answer.volume[31] = 20
    /\ inp.answer.volume[35] = 61
    /\ out[1].avg_volume_30d = 10
    /\ out[1].volume_ratio_5d = 256

\* 12 rows: the recent rows weigh on their own baseline
C19_WitnessOverlap ==
    /\ out # <<>>
    /\ inp.kind = "volume"
    /\ inp.answer.fetch = "ok"
    /\ inp.answer.volume = <<0, 0, 0, 0, 0, 0, 0, 0, 0, 0, 0, 61>>
    /\ out[1].avg_volume_30d = 5

\* the last get_options_signal call found a stored ERROR or NO_DATA result
\* less than four hours old for its ticker
DegradedEntryInWindow ==
    /\ last_call.proc = "options"
    /\ last_call.before[last_call.ticker] # <<>>
    /\ last_call.before[last_call.ticker][1].data.signal \in {"ERROR", "NO_DATA"}
    /\ last_call.t - last_call.before[last_call.ticker][1].ts < OptionsTtl

\* C20: an ERROR or NO_DATA options result is stored like any other, and
\* every call for that ticker less than 14400 s later returns that score-0
\* result without calling the provider, whatever the provider would answer
C20_DegradedOptionsCached ==
    /\ (last_call.proc = "options" /\ last_call.called
           /\ last_call.offered.signal \in {"ERROR", "NO_DATA"}) =>
               options_cache[last_call.ticker]
                   = <<[data |-> last_call.offered, ts |-> last_call.t]>>
    /\ DegradedEntryInWindow =>
           /\ ~last_call.called
           /\ out = <<last_call.before[last_call.ticker][1].data>>
           /\ out[1].score = 0
           /\ options_cache = last_call.before

\* a stored ERROR 14399 s old is served although the provider would now
\* answer with a score of 8
C20_Witness ==
    /\ DegradedEntryInWindow
    /\ last_call.t - last_call.before[last_call.ticker][1].ts = OptionsTtl - 1
    /\ last_call.offered.score = 8
    /\ out[1].signal = "ERROR"

\* C21: a failed social provider call leaves the stored list and its
\* timestamp as they were, and a scan's get_social_signal call is served
\* without a provider call only when a fresh entry exists: with none, every
\* call issues a provider call of its own
C21_FailureNotCached ==
    [][/\ (frame["scan"] # NoFrame /\ frame'["scan"] = NoFrame
             /\ ape_version' = ape_version) =>
                 (apewisdom_cache' = apewisdom_cache /\ apewisdom_ts' = apewisdom_ts)
       /\ (pc["scan"] = "loop" /\ pc'["scan"] = "sleep") => ApewisdomFresh(now)
       /\ (pc["scan"] = "loop" /\ idx < Len(watchlist) /\ watchlist[idx + 1] # BadTicker
             /\ ~ApewisdomFresh(now)) =>
                 (pc'["scan"] = "await_social" \/ UNCHANGED <<pc, idx>>)]_vars

\* the first ticker's provider call failed with nothing stored, and the
\* second ticker's call, at the same instant, has issued a provider call again
C21_Witness ==
    /\ Len(meta) = 1
    /\ meta[1].soc_ts = <<>>
    /\ idx = 1
    /\ pc["scan"] = "await_social"
    /\ frame["scan"][1].now = meta[1].t
    /\ apewisdom_cache = <<>>

\* C22: in every interleaving of social lookups on one detector the stored
\* timestamp never moves backwards, and the stored list is the one answered
\* to the most recently started of the provider calls that succeeded (its
\* timestamp is the time read before that call was awaited)
C22_TimestampMonotonic ==
    [][/\ (apewisdom_ts # <<>> /\ apewisdom_ts' # <<>>) =>
              apewisdom_ts'[1] >= apewisdom_ts[1]
       /\ apewisdom_ts' # <<>> =>
              (last_cold' # <<>> /\ apewisdom_ts'[1] = last_cold'[1])]_vars

\* the part of C22 that the code keeps: what is stored is the time read
\* before the await of the call whose answer is stored
C22_StoredTimeIsIssueTime ==
    [][\A p \in Procs : Refreshes(p) => apewisdom_ts' = <<frame[p][1].now>>]_vars

\* a composite result computed from the fetchers' signals
Reached == out # <<>> /\ inp.kind = "composite"

\* C23: for composites of signals produced by the fetchers, a weighted score
\* of 7.5 or more comes with at least two unusual flags, with at most one
\* flag the weighted score is at most 7.15, and alert_level is CRITICAL
\* exactly when the weighted score is 7.5 or more
C23_CriticalIffHighScore ==
    Reached =>
        /\ out[1].early_warning_score >= 750 => out[1].signals_triggered >= 2
        /\ out[1].signals_triggered <= 1 => out[1].early_warning_score <= 715
        /\ out[1].alert_level = "CRITICAL" <=> out[1].early_warning_score >= 750

\* one unusual signal (options, score 8) and the weighted score 7.15
C23_Witness ==
    /\ Reached
    /\ out[1].signals_triggered = 1
    /\ out[1].options_signal.unusual_activity
    /\ out[1].early_warning_score = 715
    /\ out[1].alert_level = "HIGH"

\* a weighted score of exactly 7.5, CRITICAL
C23_WitnessCritical ==
    /\ Reached
    /\ out[1].early_warning_score = 750
    /\ out[1].alert_level = "CRITICAL"

\* C24: for composites of signals produced by the fetchers, HIGH and
\* CRITICAL come with at least one unusual flag; with no flag the options
\* score is at most 5, the volume score at most 7, the social score at most 6
\* and the weighted score at most 5.95, and the level is MEDIUM or LOW
C24_HighNeedsSignal ==
    Reached =>
        /\ out[1].alert_level \in {"HIGH", "CRITICAL"} => out[1].signals_triggered >= 1
        /\ ~out[1].options_signal.unusual_activity => out[1].options_signal.score <= 5
        /\ ~out[1].volume_signal.unusual_volume => out[1].volume_signal.score <= 7
        /\ ~out[1].social_signal.unusual_buzz => out[1].social_signal.score <= 6
        /\ out[1].signals_triggered = 0 =>
               /\ out[1].early_warning_score <= 595
               /\ out[1].alert_level \in {"MEDIUM", "LOW"}

C24_Witness ==
    /\ Reached
    /\ out[1].signals_triggered = 0
    /\ out[1].options_signal.score = 5
    /\ out[1].volume_signal.score = 7
    /\ out[1].social_signal.score = 6
    /\ out[1].early_warning_score = 595
    /\ out[1].alert_level = "MEDIUM"

\* C25: every options score produced by the fetcher is one of 0, 2, 3, 5, 6,
\* 7, 8, every social score is at most 9 and every volume score at most 10,
\* so early_warning_score is at most 8.95
C25_ClampNeverBinding ==
    Reached =>
        /\ out[1].options_signal.score \in {0, 2, 3, 5, 6, 7, 8}
        /\ out[1].social_signal.score <= 9
        /\ out[1].volume_signal.score <= MaxScore
        /\ out[1].early_warning_score <= 895

\* the three largest scores together: 8, 10 and 9
C25_Witness ==
    /\ Reached
    /\ out[1].options_signal.score = 8
    /\ out[1].volume_signal.score = MaxScore
    /\ out[1].social_signal.score = 9
    /\ out[1].early_warning_score = 895
    /\ out[1].alert_level = "CRITICAL"

====
